---- MODULE Spec2Model ----
(***************************************************************************)
(* State-machine model of MSBuildingsDownloaderAlgorithm (mainPlugin.py):  *)
(* one algorithm instance, its initAlgorithm and a bounded number of       *)
(* processAlgorithm runs, each run split at the points where the           *)
(* environment can interleave (cancellation, per-row download outcome).    *)
(***************************************************************************)
EXTENDS Integers, Sequences, FiniteSets, TLC

\* ------------------------------------------------------------------ bounds
\* number of processAlgorithm runs on the one instance
MaxRuns == 2

\* --------------------------------------------------------------- constants
\* range(9, 13)
ZoomStart == 9
ZoomStop == 13

CustomArea == "Custom Area (use extent below)"
OnlineUrl == "https://minedbuildings.z5.web.core.windows.net/global-buildings/dataset-links.csv"

\* exception messages raised by processAlgorithm
ErrLoadCsv == "Could not load CSV file"
ErrLoadOnline == "Could not load dataset"
ErrExtentRequired == "Extent is required when using 'Custom Area'"
ErrNoTiles == "No building data available for this extent"
ErrNoDataFound == "No data found for the selected area"
ErrNoDownload == "No data could be downloaded"
ErrIndex == "IndexError: list index out of range"
NoFailure == "none"

\* ------------------------------------------------------- text and numbers
\* Text is a sequence of character codes.
DigitChars == 48..57
\* the cell "x"
NonNumericCell == <<120>>

Pow2(n) == 2 ^ n

\* mercantile.quadkey(tile): one base-4 digit per zoom level, most
\* significant first, bit of x adds 1 and bit of y adds 2.
RECURSIVE quadkey(_, _, _)
quadkey(x, y, z) ==
    IF z = 0 THEN <<>>
    ELSE LET mask == Pow2(z - 1)
             digit == (IF (x \div mask) % 2 = 1 THEN 1 ELSE 0)
                      + (IF (y \div mask) % 2 = 1 THEN 2 ELSE 0)
         IN  <<48 + digit>> \o quadkey(x, y, z - 1)

\* a Python str value
Str(text) == [dtype |-> "object", text |-> text]

\* -------------------------------------------------------- the environment
\* Tiles mercantile.tiles can yield for the extent at zoom z: one tile, or
\* that tile and its eastern neighbour.
TileA(z) == [x |-> 137 * Pow2(z - ZoomStart), y |-> 189 * Pow2(z - ZoomStart), z |-> z]
TileB(z) == [x |-> 137 * Pow2(z - ZoomStart) + 1, y |-> 189 * Pow2(z - ZoomStart), z |-> z]

ZoomLevels == ZoomStart..(ZoomStop - 1)

\* outcome of list(mercantile.tiles(...)) at one level: it raises, or
\* yields a non-empty collection of tiles
TileOutcomes(z) ==
    { [raised |-> TRUE, tiles |-> {}],
      [raised |-> FALSE, tiles |-> {TileA(z)}],
      [raised |-> FALSE, tiles |-> {TileA(z), TileB(z)}] }

AllTileOutcomes == { f \in [ZoomLevels -> UNION { TileOutcomes(z) : z \in ZoomLevels }] :
                        \A z \in ZoomLevels : f[z] \in TileOutcomes(z) }

NoTileOutcomes == [z \in ZoomLevels |-> [raised |-> TRUE, tiles |-> {}]]

\* Manifest files, as the text of their cells.
LocalCsv == "/data/local.csv"
SmallCsv == "/data/small.csv"

OnlineFile ==
    << [Location |-> "Aruba", QuadKey |-> quadkey(137, 189, 9), Url |-> "u1"],
       [Location |-> "Aruba", QuadKey |-> quadkey(138, 189, 9), Url |-> "u2"],
       [Location |-> "Fiji",  QuadKey |-> quadkey(274, 378, 10), Url |-> "u3"] >>

\* one cell of the QuadKey column is not a number; two rows share a QuadKey
LocalFile ==
    << [Location |-> "Fiji", QuadKey |-> quadkey(137, 189, 9), Url |-> "u4"],
       [Location |-> "Guam", QuadKey |-> quadkey(137, 189, 9), Url |-> "u5"],
       [Location |-> "Guam", QuadKey |-> NonNumericCell, Url |-> "u6"],
       [Location |-> "Guam", QuadKey |-> quadkey(274, 378, 10), Url |-> "u8"] >>

SmallFile ==
    << [Location |-> "Guam", QuadKey |-> quadkey(137, 189, 9), Url |-> "u7"] >>

Files == (OnlineUrl :> OnlineFile) @@ (LocalCsv :> LocalFile) @@ (SmallCsv :> SmallFile)

CsvPaths == {"", OnlineUrl, LocalCsv, SmallCsv}

\* number of records in the data file behind each Url
FileLines == ("u1" :> 2) @@ ("u2" :> 1) @@ ("u3" :> 1) @@ ("u4" :> 1)
             @@ ("u5" :> 2) @@ ("u6" :> 1) @@ ("u7" :> 1) @@ ("u8" :> 1)

\* Python's ordering of the location names
LocRank == ("Aruba" :> 1) @@ ("Fiji" :> 2) @@ ("Guam" :> 3)

\* ------------------------------------------------------------------ pandas
NoTable == [isNone |-> TRUE, rows |-> <<>>]

IsNumeric(text) == Len(text) > 0 /\ \A i \in DOMAIN text : text[i] \in DigitChars

\* the decimal text of int(text)
RECURSIVE IntText(_)
IntText(text) == IF Len(text) > 1 /\ text[1] = 48 THEN IntText(Tail(text)) ELSE text

\* pd.read_csv: a column whose cells are all integers becomes int64,
\* otherwise its cells stay strings
read_csv(source) ==
    LET raw == Files[source]
        allNum == \A i \in DOMAIN raw : IsNumeric(raw[i].QuadKey)
    IN  [isNone |-> FALSE,
         rows |-> [i \in DOMAIN raw |->
                     [Location |-> raw[i].Location,
                      QuadKey |-> IF allNum
                                   THEN [dtype |-> "int64", text |-> IntText(raw[i].QuadKey)]
                                   ELSE Str(raw[i].QuadKey),
                      Url |-> raw[i].Url]]]

\* df[df['Location'] == name]: boolean-mask selection, source order kept
select_by_location(table, name) ==
    SelectSeq(table.rows, LAMBDA r : r.Location = name)

\* df[df['QuadKey'].isin(quadkeys)]: a cell matches a value of the same
\* Python type only (an int64 cell never equals a str)
select_by_quadkeys(table, qks) ==
    SelectSeq(table.rows, LAMBDA r : r.QuadKey \in qks)

RECURSIVE SortByRank(_)
SortByRank(S) ==
    IF S = {} THEN <<>>
    ELSE LET m == CHOOSE a \in S : \A b \in S : LocRank[a] <= LocRank[b]
         IN  <<m>> \o SortByRank(S \ {m})

\* ['Custom Area (use extent below)'] + sorted(dataset_links['Location'].unique())
location_options_of(table) ==
    <<CustomArea>> \o SortByRank({ table.rows[i].Location : i \in DOMAIN table.rows })

\* pd.read_json(row.Url, lines=True, compression='gzip') when it succeeds
read_json(url) == [i \in 1..FileLines[url] |-> [geometry |-> <<url, i>>]]

\* pd.concat(all_gdfs, ignore_index=True)
RECURSIVE concat(_)
concat(gdfs) == IF gdfs = <<>> THEN <<>> ELSE gdfs[1] \o concat(Tail(gdfs))

Msg(kind, arg) == [kind |-> kind, arg |-> arg]

\* ------------------------------------------------------------------ state
VARIABLES
    pc,              \* position of the instance: created, idle, aoi, download, done, failed
    run,             \* number of processAlgorithm calls started on the instance
    dataset_links,   \* self.dataset_links
    cache_src,       \* the source self.dataset_links was read from ("" when None)
    offered,         \* options of the LOCATION parameter added by initAlgorithm
    canceled,        \* feedback.isCanceled()
    csv_path,        \* parameters: CSV_PATH
    location_index,  \* parameters: LOCATION
    extent_given,    \* parameters: EXTENT is set
    tile_outcomes,   \* what mercantile.tiles does at each zoom level for the extent
    selected_location,
    quadkeys,
    location_data,
    idx,             \* rows of location_data the loop has gone through
    all_gdfs,
    row_ok,          \* for each row gone through: did its download and parse succeed
    errors,          \* feedback.reportError calls of this run
    infos,           \* pushInfo calls of this run
    current_step,    \* multi_step_feedback.setCurrentStep
    progress,        \* multi_step_feedback.setProgress
    failure,         \* message of the exception that ended the run
    output,          \* combined_gdf written to the output layer
    proc_reads,      \* pd.read_csv calls made by this processAlgorithm
    pre_src,         \* cache_src when this processAlgorithm started
    broke_on_cancel  \* the loop was left by the isCanceled() break

vars == <<pc, run, dataset_links, cache_src, offered, canceled, csv_path,
          location_index, extent_given, tile_outcomes, selected_location,
          quadkeys, location_data, idx, all_gdfs, row_ok, errors, infos,
          current_step, progress, failure, output, proc_reads, pre_src,
          broke_on_cancel>>

instance_vars == <<dataset_links, cache_src, offered>>
area_vars == <<location_index, extent_given, tile_outcomes, selected_location,
               quadkeys, location_data>>
loop_vars == <<idx, all_gdfs, row_ok, progress, output, broke_on_cancel>>

\* ------------------------------------------------- get_quadkeys_for_bbox
\* one pass of the loop body for zoom level z; o is what
\* list(mercantile.tiles(..., z)) did
zoom_step_silent(z, o, acc) ==
    IF o.raised
    THEN acc
    ELSE [acc EXCEPT !.infos = Append(@, Msg("found_tiles", <<Cardinality(o.tiles), z>>)),
                     !.quadkeys = @ \cup { Str(quadkey(t.x, t.y, t.z)) : t \in o.tiles }]

zoom_step(z, o, acc) ==
    IF o.raised
    THEN [acc EXCEPT !.errors = Append(@, Msg("zoom_error", <<z>>))]
    ELSE [acc EXCEPT !.infos = Append(@, Msg("found_tiles", <<Cardinality(o.tiles), z>>)),
                     !.quadkeys = @ \cup { Str(quadkey(t.x, t.y, t.z)) : t \in o.tiles }]

RECURSIVE zoom_loop(_, _, _)
zoom_loop(z, outcomes, acc) ==
    IF z >= ZoomStop THEN acc
    ELSE zoom_loop(z + 1, outcomes, zoom_step(z, outcomes[z], acc))

get_quadkeys_for_bbox(outcomes) ==
    LET r == zoom_loop(ZoomStart, outcomes,
                       [quadkeys |-> {}, errors |-> <<>>,
                        infos |-> <<Msg("computing_quadkeys", <<>>)>>])
    IN  [r EXCEPT !.infos = Append(@, Msg("total_quadkeys", <<Cardinality(r.quadkeys)>>))]

\* ------------------------------------------- pieces of processAlgorithm
\* which branch of the manifest load runs
LoadBranch_nocache(path, table) ==
    IF path # "" THEN "csv" ELSE "online"

LoadBranch(path, table) ==
    IF path # "" THEN "csv"
    ELSE IF table.isNone THEN "online"
    ELSE "cached"

\* if len(location_data) == 0
is_empty_selection_never(rows) == FALSE

is_empty_selection(rows) == Len(rows) = 0

\* gdf['quadkey'] = row.QuadKey; gdf['location'] = row.Location
tag_features_selected(row, df) ==
    [i \in DOMAIN df |-> [geometry |-> df[i].geometry,
                          quadkey |-> row.QuadKey,
                          location |-> selected_location]]

tag_features(row, df) ==
    [i \in DOMAIN df |-> [geometry |-> df[i].geometry,
                          quadkey |-> row.QuadKey,
                          location |-> row.Location]]

\* except Exception: feedback.reportError(f"Failed to download {row.QuadKey}: {e}")
report_row_failure_silent(errs, row) == errs

report_row_failure(errs, row) == Append(errs, Msg("download_error", row.QuadKey.text))

\* f"Successfully downloaded {len(combined_gdf)} features"
success_message_files(combined) ==
    Msg("success", <<Cardinality({ combined[i].geometry[1] : i \in DOMAIN combined })>>)

success_message(combined) == Msg("success", <<Len(combined)>>)

\* Step 2 of processAlgorithm up to the selection of location_data
AreaBase == [failure |-> NoFailure, selected |-> "", quadkeys |-> {},
             errors |-> <<>>, infos |-> <<Msg("determining_area", <<>>)>>,
             location_data |-> <<>>]

determine_area(table, index, ext, outcomes) ==
    LET opts == location_options_of(table) IN
    IF index + 1 > Len(opts)
    THEN [AreaBase EXCEPT !.failure = ErrIndex]
    ELSE LET sel == opts[index + 1]
             withSel == [AreaBase EXCEPT !.selected = sel]
         IN
         IF sel = CustomArea
         THEN IF ~ext
              THEN [withSel EXCEPT !.failure = ErrExtentRequired]
              ELSE LET r == get_quadkeys_for_bbox(outcomes)
                       got == [withSel EXCEPT
                                 !.infos = (@ \o <<Msg("using_extent", <<>>)>>) \o r.infos,
                                 !.errors = r.errors,
                                 !.quadkeys = r.quadkeys]
                   IN  IF r.quadkeys = {}
                       THEN [got EXCEPT !.failure = ErrNoTiles]
                       ELSE [got EXCEPT !.location_data = select_by_quadkeys(table, r.quadkeys)]
         ELSE [withSel EXCEPT !.infos = Append(@, Msg("using_location", <<LocRank[sel]>>)),
                              !.location_data = select_by_location(table, sel)]

\* __init__
Init ==
    /\ pc = "created"
    /\ run = 0
    /\ dataset_links = NoTable
    /\ cache_src = ""
    /\ offered = <<>>
    /\ canceled = FALSE
    /\ csv_path = ""
    /\ location_index = 0
    /\ extent_given = FALSE
    /\ tile_outcomes = NoTileOutcomes
    /\ selected_location = ""
    /\ quadkeys = {}
    /\ location_data = <<>>
    /\ idx = 0
    /\ all_gdfs = <<>>
    /\ row_ok = <<>>
    /\ errors = <<>>
    /\ infos = <<>>
    /\ current_step = 0
    /\ progress = 0
    /\ failure = NoFailure
    /\ output = <<>>
    /\ proc_reads = 0
    /\ pre_src = ""
    /\ broke_on_cancel = FALSE

\* initAlgorithm: ok says whether the online read_csv succeeded
InitAlgorithm(ok) ==
    /\ pc = "created"
    /\ pc' = "idle"
    /\ IF ok
       THEN /\ dataset_links' = read_csv(OnlineUrl)
            /\ cache_src' = OnlineUrl
            /\ offered' = location_options_of(read_csv(OnlineUrl))
       ELSE /\ offered' = <<CustomArea>>
            /\ UNCHANGED <<dataset_links, cache_src>>
    /\ UNCHANGED <<run, canceled, csv_path, errors, infos, current_step, failure,
                   proc_reads, pre_src>>
    /\ UNCHANGED area_vars
    /\ UNCHANGED loop_vars

\* processAlgorithm, step 1: a new run starts and loads the manifest
LoadDataset(path, ok) ==
    /\ pc \in {"idle", "done", "failed"}
    /\ run < MaxRuns
    /\ run' = run + 1
    /\ csv_path' = path
    /\ canceled' = FALSE
    /\ current_step' = 0
    /\ pre_src' = cache_src
    /\ errors' = <<>>
    /\ location_index' = 0
    /\ extent_given' = FALSE
    /\ tile_outcomes' = NoTileOutcomes
    /\ selected_location' = ""
    /\ quadkeys' = {}
    /\ location_data' = <<>>
    /\ idx' = 0
    /\ all_gdfs' = <<>>
    /\ row_ok' = <<>>
    /\ progress' = 0
    /\ output' = <<>>
    /\ broke_on_cancel' = FALSE
    /\ UNCHANGED offered
    /\ LET branch == LoadBranch(path, dataset_links)
           src == IF branch = "csv" THEN path ELSE OnlineUrl
       IN  /\ proc_reads' = IF branch = "cached" THEN 0 ELSE 1
           /\ IF branch = "cached"
              THEN /\ pc' = "aoi"
                   /\ failure' = NoFailure
                   /\ infos' = <<Msg("loading", <<>>)>>
                   /\ UNCHANGED <<dataset_links, cache_src>>
              ELSE IF ok
              THEN /\ pc' = "aoi"
                   /\ failure' = NoFailure
                   /\ dataset_links' = read_csv(src)
                   /\ cache_src' = src
                   /\ infos' = <<Msg("loading", <<>>), Msg("loaded_" \o branch, <<>>)>>
              ELSE /\ pc' = "failed"
                   /\ failure' = IF branch = "csv" THEN ErrLoadCsv ELSE ErrLoadOnline
                   /\ infos' = <<Msg("loading", <<>>)>>
                   /\ UNCHANGED <<dataset_links, cache_src>>

\* processAlgorithm, step 2, up to setCurrentStep(2)
DetermineArea(index, ext, outcomes) ==
    /\ pc = "aoi"
    /\ LET r == determine_area(dataset_links, index, ext, outcomes)
           fatal == IF r.failure # NoFailure THEN r.failure
                    ELSE IF is_empty_selection(r.location_data) THEN ErrNoDataFound
                    ELSE NoFailure
       IN  /\ location_index' = index
           /\ extent_given' = ext
           /\ tile_outcomes' = outcomes
           /\ selected_location' = r.selected
           /\ quadkeys' = r.quadkeys
           /\ location_data' = r.location_data
           /\ errors' = errors \o r.errors
           /\ failure' = fatal
           /\ IF fatal # NoFailure
              THEN /\ pc' = "failed"
                   /\ current_step' = 1
                   /\ infos' = infos \o r.infos
              ELSE /\ pc' = "download"
                   /\ current_step' = 2
                   /\ infos' = (infos \o r.infos)
                                \o <<Msg("downloading_files", <<Len(r.location_data)>>)>>
    /\ UNCHANGED <<run, canceled, csv_path, proc_reads, pre_src>>
    /\ UNCHANGED instance_vars
    /\ UNCHANGED loop_vars

\* the caller's inputs of step 2: the index is one of the offered options;
\* extent and tile outcomes matter in custom-area mode only
AreaStep ==
    /\ pc = "aoi"
    /\ \E index \in 0..(Len(offered) - 1) :
         IF index = 0
         THEN \/ DetermineArea(index, FALSE, NoTileOutcomes)
              \/ \E outcomes \in AllTileOutcomes : DetermineArea(index, TRUE, outcomes)
         ELSE DetermineArea(index, FALSE, NoTileOutcomes)

\* one iteration of the download loop that passes the isCanceled() check;
\* ok says whether the download and parse of the row succeeded
ProcessRow(ok) ==
    /\ pc = "download"
    /\ idx < Len(location_data)
    /\ ~canceled
    /\ LET row == location_data[idx + 1] IN
       /\ progress' = (idx * 100) \div Len(location_data)
       /\ infos' = Append(infos, Msg("downloading_quadkey", row.QuadKey.text))
       /\ IF ok
          THEN /\ all_gdfs' = Append(all_gdfs, tag_features(row, read_json(row.Url)))
               /\ UNCHANGED errors
          ELSE /\ errors' = report_row_failure(errors, row)
               /\ UNCHANGED all_gdfs
       /\ row_ok' = Append(row_ok, ok)
    /\ idx' = idx + 1
    /\ UNCHANGED <<pc, run, canceled, csv_path, current_step, failure, output,
                   proc_reads, pre_src, broke_on_cancel>>
    /\ UNCHANGED instance_vars
    /\ UNCHANGED area_vars

\* the loop ends (rows exhausted, or the isCanceled() break) and the rest
\* of processAlgorithm runs
FinishRun ==
    /\ pc = "download"
    /\ idx = Len(location_data) \/ canceled
    /\ broke_on_cancel' = (idx < Len(location_data))
    /\ IF all_gdfs = <<>>
       THEN /\ pc' = "failed"
            /\ failure' = ErrNoDownload
            /\ UNCHANGED <<current_step, output, infos>>
       ELSE /\ pc' = "done"
            /\ current_step' = 3
            /\ output' = concat(all_gdfs)
            /\ infos' = (infos \o <<Msg("processing", <<>>)>>)
                         \o <<success_message(concat(all_gdfs))>>
            /\ UNCHANGED failure
    /\ UNCHANGED <<run, canceled, csv_path, errors, proc_reads, pre_src,
                   idx, all_gdfs, row_ok, progress>>
    /\ UNCHANGED instance_vars
    /\ UNCHANGED area_vars

\* the user cancels the running job
Cancel ==
    /\ pc \in {"aoi", "download"}
    /\ ~canceled
    /\ canceled' = TRUE
    /\ UNCHANGED <<pc, run, csv_path, errors, infos, current_step, failure,
                   proc_reads, pre_src>>
    /\ UNCHANGED instance_vars
    /\ UNCHANGED area_vars
    /\ UNCHANGED loop_vars

Next ==
    \/ \E ok \in BOOLEAN : InitAlgorithm(ok)
    \/ \E path \in CsvPaths, ok \in BOOLEAN : LoadDataset(path, ok)
    \/ AreaStep
    \/ \E ok \in BOOLEAN : ProcessRow(ok)
    \/ FinishRun
    \/ Cancel

Spec == Init /\ [][Next]_vars

\* ============================================================ properties
LoadErrors == {ErrLoadCsv, ErrLoadOnline}

\* the run has gone through step 1 (manifest load)
LoadDone == pc \in {"aoi", "download", "done"}
            \/ (pc = "failed" /\ failure \notin LoadErrors)

\* the run has gone through step 2 (area of interest)
AreaDone == pc \in {"download", "done"}
            \/ (pc = "failed" /\ failure \notin LoadErrors /\ selected_location # "")
            \/ (pc = "failed" /\ failure = ErrIndex)

\* the loop and the code after it have run
RunOver == pc = "done" \/ (pc = "failed" /\ failure = ErrNoDownload)

\* the source this run names: its CSV_PATH, or the online URL when empty
RunSource == IF csv_path = "" THEN OnlineUrl ELSE csv_path

DownloadErrors == SelectSeq(errors, LAMBDA m : m.kind = "download_error")
ZoomErrors == SelectSeq(errors, LAMBDA m : m.kind = "zoom_error")

FailedRows == { i \in DOMAIN row_ok : ~row_ok[i] }
SucceededRows == { i \in DOMAIN row_ok : row_ok[i] }

\* one error message per failed row gone through, in row order
RECURSIVE ExpectedDownloadErrors(_)
ExpectedDownloadErrors(n) ==
    IF n = 0 THEN <<>>
    ELSE ExpectedDownloadErrors(n - 1)
         \o (IF row_ok[n] THEN <<>>
             ELSE <<Msg("download_error", location_data[n].QuadKey.text)>>)

\* the records of the files of the succeeded rows, in row order
RECURSIVE ExpectedGeometries(_)
ExpectedGeometries(n) ==
    IF n = 0 THEN <<>>
    ELSE ExpectedGeometries(n - 1)
         \o (IF row_ok[n]
             THEN [j \in 1..FileLines[location_data[n].Url] |-> <<location_data[n].Url, j>>]
             ELSE <<>>)

Geometries(gdf) == [i \in DOMAIN gdf |-> gdf[i].geometry]

\* C1: with cancellation never signalled, every failed row has exactly one
\* reportError naming its QuadKey, the loop goes on through all rows, and
\* when some row succeeded the job completes with exactly the features of
\* the succeeded rows.
C1_FailuresIsolated ==
    (pc \in {"download", "done", "failed"} /\ current_step >= 2 /\ ~canceled) =>
        /\ Len(row_ok) = idx
        /\ DownloadErrors = ExpectedDownloadErrors(idx)
        /\ Geometries(concat(all_gdfs)) = ExpectedGeometries(idx)
        /\ (RunOver => idx = Len(location_data))
        /\ (RunOver /\ SucceededRows # {} =>
                /\ pc = "done"
                /\ failure = NoFailure
                /\ Geometries(output) = ExpectedGeometries(Len(location_data)))

C1_Witness ==
    /\ pc = "done"
    /\ ~canceled
    /\ Len(location_data) = 3
    /\ row_ok = <<TRUE, FALSE, TRUE>>

\* C2 (as stated): when the loop is left by the cancellation break at row k,
\* no row from k on is downloaded and the job returns the features merged
\* from the rows before k, not an error.
C2_CancelReturnsPartial ==
    (RunOver /\ broke_on_cancel) =>
        /\ Len(row_ok) = idx
        /\ pc = "done"
        /\ failure = NoFailure
        /\ Geometries(output) = ExpectedGeometries(idx)

\* C3 (as stated): 'No data could be downloaded' is raised exactly when
\* every selected row failed, and only after all selected rows were attempted.
C3_NoDownloadIffAllFailed ==
    /\ (failure = ErrNoDownload =>
            /\ Len(row_ok) = Len(location_data)
            /\ SucceededRows = {})
    /\ (RunOver /\ Len(row_ok) = Len(location_data) /\ SucceededRows = {} =>
            failure = ErrNoDownload)

\* C4: the download phase is reached only with a non-empty selection; an
\* empty selection or an empty quadkey set ends the job with a fatal error
\* before any download is attempted.
C4_NonEmptySelection ==
    /\ (current_step >= 2 \/ pc \in {"download", "done"} \/ Len(row_ok) > 0 =>
            Len(location_data) > 0)
    /\ (AreaDone /\ Len(location_data) = 0 =>
            /\ pc = "failed"
            /\ failure \in {ErrIndex, ErrExtentRequired, ErrNoTiles, ErrNoDataFound}
            /\ current_step = 1
            /\ row_ok = <<>>
            /\ all_gdfs = <<>>)
    /\ (AreaDone /\ selected_location = CustomArea /\ extent_given /\ quadkeys = {} =>
            pc = "failed" /\ failure = ErrNoTiles /\ row_ok = <<>>)

C4_Witness ==
    /\ pc = "failed"
    /\ failure = ErrNoDataFound
    /\ selected_location = CustomArea
    /\ quadkeys # {}
    /\ location_data = <<>>

\* C5: each failing zoom level gives one reported error and no quadkeys, the
\* quadkeys are the union over the levels that did not fail, and the 'no
\* tiles' failure is raised only when all four levels failed.
RaisedLevels == { z \in ZoomLevels : tile_outcomes[z].raised }

RECURSIVE ExpectedZoomErrors(_)
ExpectedZoomErrors(z) ==
    IF z < ZoomStart THEN <<>>
    ELSE ExpectedZoomErrors(z - 1)
         \o (IF tile_outcomes[z].raised THEN <<Msg("zoom_error", <<z>>)>> ELSE <<>>)

C6_ReusesUnlessDifferentSource ==
    (run = 1 /\ LoadDone /\ pre_src # "" /\ RunSource = pre_src) => proc_reads = 0

\* C6 (amended): in the first job, processAlgorithm makes at most one read,
\* and makes none exactly when CSV_PATH is empty and a table is cached; a
\* non-empty CSV_PATH is always read.
C6_ReusesIffEmptyPath ==
    (run = 1 /\ pc \in {"aoi", "download", "done", "failed"}) =>
        /\ proc_reads <= 1
        /\ (proc_reads = 0 <=> (csv_path = "" /\ pre_src # ""))
        /\ (proc_reads = 0 /\ LoadDone => cache_src = pre_src)

C6_Witness ==
    /\ run = 1
    /\ pc = "aoi"
    /\ csv_path = ""
    /\ pre_src = OnlineUrl
    /\ proc_reads = 0

\* C7 (as stated): the table a run selects rows from is the one loaded from
\* that run's own source, never one cached from a different source.
C7_TableFromOwnSource ==
    LoadDone => (cache_src = RunSource /\ dataset_links = read_csv(RunSource))

\* C8 (as stated): a success after some row failed gives the caller a final
\* count of skipped versus succeeded partitions.
C8_FinalPartitionCount ==
    (pc = "done" /\ FailedRows # {}) =>
        \E m \in { infos[i] : i \in DOMAIN infos } \cup { errors[i] : i \in DOMAIN errors } :
            /\ m.kind = "partition_count"
            /\ m.arg = <<Cardinality(FailedRows), Cardinality(SucceededRows)>>

\* C8 (amended): a success after some row failed gives the caller one error
\* message per failed row and a final message with the number of merged
\* features; no message carries a count of partitions.
C8_FinalFeatureCount ==
    (pc = "done") =>
        /\ infos[Len(infos)] = Msg("success", <<Len(output)>>)
        /\ Len(DownloadErrors) = Cardinality(FailedRows)
        /\ \A i \in DOMAIN infos : infos[i].kind # "partition_count"
        /\ \A i \in DOMAIN errors : errors[i].kind \in {"download_error", "zoom_error"}

C8_Witness ==
    /\ pc = "done"
    /\ FailedRows # {}
    /\ Len(output) = 3

\* C9: every merged feature carries the QuadKey and Location of the
\* manifest row whose file it was parsed from.
C9_Provenance ==
    \A f \in { concat(all_gdfs)[i] : i \in DOMAIN concat(all_gdfs) }
             \cup { output[i] : i \in DOMAIN output } :
        \E n \in DOMAIN location_data :
            /\ location_data[n].Url = f.geometry[1]
            /\ row_ok[n]
            /\ f.quadkey = location_data[n].QuadKey
            /\ f.location = location_data[n].Location
            /\ f.location # ""

C9_Witness ==
    /\ pc = "done"
    /\ \E i, j \in DOMAIN output :
          /\ output[i].quadkey = output[j].quadkey
          /\ output[i].location # output[j].location
    /\ \E i, j \in DOMAIN output :
          /\ output[i].quadkey # output[j].quadkey
          /\ output[i].location = output[j].location

\* C10 (as stated): the location resolved from the LOCATION index is defined
\* and is the option initAlgorithm offered at that index.
C10_ResolvedIsOffered ==
    AreaDone =>
        /\ failure # ErrIndex
        /\ selected_location = offered[location_index + 1]

====
